---- MODULE Spec2Model ----
(***************************************************************************)
(* A model of popol (src/src/lib.rs): the readiness registry Poll<K>, its  *)
(* wait loop over poll(2), the filtering iterator, and the self-pipe       *)
(* Waker.                                                                  *)
(*                                                                         *)
(* An Event (a c_short bit mask) is modelled as the set of the names of    *)
(* its bits: | is \cup, & is \cap, & ! is \, and "!= 0" is "# {}".         *)
(***************************************************************************)
EXTENDS Integers, Sequences, FiniteSets, TLC

VARIABLES
    index,          \* Poll.index: Vec<K>
    list,           \* Poll.list: Vec<PollFd>
    events_count,   \* Poll.events_count
    pc,             \* the owning thread: "idle", inside "wait_timeout" or "wait", or "panicked"
    arg,            \* the Timeout argument of the call in progress
    timeout,        \* the c_int handed to libc::poll by the call in progress
    ret,            \* the owning thread's last call and what it returned
    cond,           \* kernel: the condition of each user descriptor
    waker,          \* whether Waker::new has created the socket pair
    buf,            \* kernel: bytes queued on the waker's reader
    tpc,            \* the position of each other thread inside Waker::wake / Waker::reset
    wakes,          \* wake() calls that returned Ok since the last Waker::reset call began
    woken,          \* whether such a wake() had returned when the call in progress entered libc::poll
    again,          \* the positions the wait_timeout just before the one in progress reported readable
    drained         \* whether a Waker::reset call has returned Ok and no wake() has taken a step since

vars == <<index, list, events_count, pc, arg, timeout, ret, cond, waker, buf, tpc, wakes, woken,
          again, drained>>

poll_vars == <<index, list, events_count>>
call_vars == <<pc, arg, timeout, ret, woken, again>>
waker_vars == <<waker, buf, tpc, wakes, drained>>

-----------------------------------------------------------------------------
(* Bounds of the model *)

\* the registry holds at most MaxLen sources
MaxLen == 2
\* durations are q * 2^31 + r milliseconds with q in 0..MaxQ
MaxQ == 1
\* the waker's socket buffer holds at most BufCap bytes
BufCap == 2
\* one read of Waker::reset takes at most ReadLen bytes off the buffer
ReadLen == 1
\* the ghost counter wakes saturates at MaxWakes
MaxWakes == 2
\* the registry of RegistrySpec holds at most MaxRegs sources
MaxRegs == 3

\* keys the caller registers its own sources under, and the waker's key
Keys == {"a", "b"}
WakerKey == "w"
AllKeys == Keys \cup {WakerKey}

\* the descriptor the caller registers under each key; the waker's reader
WakerFd == 3
FdOf(key) == CASE key = "a" -> 1 [] key = "b" -> 2 [] OTHER -> WakerFd
UserFds == {FdOf(k) : k \in Keys}

\* the threads other than the registry's owner
Threads == {"t1", "t2"}

-----------------------------------------------------------------------------
(* mod event *)

POLLIN == {"IN"}
POLLPRI == {"PRI"}
POLLOUT == {"OUT"}
POLLWRBAND == {"WRBAND"}
POLLERR == {"ERR"}
POLLHUP == {"HUP"}
POLLNVAL == {"NVAL"}

READ == POLLIN \cup POLLPRI
WRITE == POLLOUT \cup POLLWRBAND
ALL == READ \cup WRITE
NONE == {}

\* the interests and masks callers pass
EventInputs == {NONE, READ, WRITE}
MaskInputs == {READ, WRITE}

-----------------------------------------------------------------------------
(* Timeout *)

IntMax == 2147483647

Never == [kind |-> "Never", q |-> 0, r |-> 0]
\* a Duration of q * 2^31 + r milliseconds, 0 <= r < 2^31
After(q, r) == [kind |-> "After", q |-> q, r |-> r]

TimeoutInputs == {Never} \cup {After(q, 1) : q \in 0..MaxQ}

\* duration.as_millis() as libc::c_int: the low 32 bits, as a signed integer
AsCInt(q, r) == IF q % 2 = 0 THEN r ELSE r - IntMax - 1

TimeoutMillis(t) == IF t.kind = "Never" THEN -1 ELSE AsCInt(t.q, t.r)

-----------------------------------------------------------------------------
(* PollFd *)

PollFdNew(fd, events) == [fd |-> fd, events |-> events, revents |-> {}]

\* mutant: set assigns the mask instead of adding it
PollFdSet_Assign(p, events) == [p EXCEPT !.events = events]

PollFdSet(p, events) == [p EXCEPT !.events = @ \cup events]

\* mutant: unset keeps the bits of the mask instead of removing them
PollFdUnset_AndMask(p, events) == [p EXCEPT !.events = @ \cap events]

PollFdUnset(p, events) == [p EXCEPT !.events = @ \ events]

is_writable(p) == p.revents \cap WRITE # {}
is_readable(p) == p.revents \cap READ # {}
has_hangup(p) == p.revents \cap POLLHUP # {}
has_errored(p) == p.revents \cap POLLERR # {}
is_invalid(p) == p.revents \cap POLLNVAL # {}

\* mutant: only the READ and WRITE bits count as events
HasEvents_ReadWriteOnly(p) == p.revents \cap ALL # {}

HasEvents(p) == p.revents # {}

-----------------------------------------------------------------------------
(* Poll: pure parts *)

\* Poll::reset's loop over the list
ClearRevents(l) == [i \in 1..Len(l) |-> [l[i] EXCEPT !.revents = {}]]

RECURSIVE Position(_, _, _)
Position(keys, key, i) ==
    IF i > Len(keys) THEN 0
    ELSE IF keys[i] = key THEN i
    ELSE Position(keys, key, i + 1)

\* Poll::find: the first position holding key, 0 for None
Find(keys, key) == Position(keys, key, 1)

\* mutant: Vec::remove, which shifts the later elements down
SwapRemove_Shift(s, ix) == SubSeq(s, 1, ix - 1) \o SubSeq(s, ix + 1, Len(s))

\* Vec::swap_remove
SwapRemove(s, ix) ==
    IF ix = Len(s) THEN SubSeq(s, 1, Len(s) - 1)
    ELSE [SubSeq(s, 1, Len(s) - 1) EXCEPT ![ix] = s[Len(s)]]

\* Iter::next, called until it returns None: the pairs yielded, or the panic
RECURSIVE IterCollect(_, _)
IterCollect(keys, l) ==
    IF keys = <<>> /\ l = <<>> THEN [panic |-> FALSE, items |-> <<>>]
    ELSE IF keys # <<>> /\ l # <<>> THEN
        LET rest == IterCollect(Tail(keys), Tail(l)) IN
        IF HasEvents(Head(l))
        THEN [rest EXCEPT !.items = <<<<Head(keys), Head(l)>>>> \o @]
        ELSE rest
    ELSE [panic |-> TRUE, items |-> <<>>]

\* Poll::events, and into_iter on &Poll and on Poll
Events == IterCollect(index, list)

has_events == events_count > 0

-----------------------------------------------------------------------------
(* The kernel *)

\* what a user descriptor can be: quiet, data pending on a writable socket, hung up
KernelConds == {{}, {"IN", "OUT"}, {"HUP"}}

\* the waker's reader is a socket: writable, and readable while bytes are queued
CondOf(fd) ==
    IF fd = WakerFd THEN (IF buf > 0 THEN {"IN", "OUT"} ELSE {"OUT"})
    ELSE cond[fd]

\* poll(2) reports the requested bits and always POLLERR, POLLHUP, POLLNVAL
PollRevents(p) == CondOf(p.fd) \cap (p.events \cup POLLERR \cup POLLHUP \cup POLLNVAL)

PollScan(l) == [i \in 1..Len(l) |-> [l[i] EXCEPT !.revents = PollRevents(l[i])]]

ReadyCount(l) == Cardinality({i \in 1..Len(l) : PollRevents(l[i]) # {}})

-----------------------------------------------------------------------------
(* Poll: the methods, as functions of the struct *)

Self == [index |-> index, list |-> list, events_count |-> events_count]

Store(s) ==
    /\ index' = s.index
    /\ list' = s.list
    /\ events_count' = s.events_count

\* mutant: reset clears the revents and keeps the count
PollReset_KeepCount(s) == [s EXCEPT !.list = ClearRevents(s.list)]

\* Poll::reset: the struct it leaves (it returns s.events_count)
PollReset(s) == [s EXCEPT !.list = ClearRevents(s.list), !.events_count = 0]

\* Poll::insert
PollInsert(s, key, source) ==
    [s EXCEPT !.index = Append(s.index, key), !.list = Append(s.list, source)]

\* Poll::register
PollRegister(s, key, fd, events) == PollInsert(PollReset(s), key, PollFdNew(fd, events))

\* mutant: unregister resets and removes nothing
PollUnregister_ResetOnly(s, key) == PollReset(s)

\* mutant: the record removed is the last one, not the one at the key's position
PollUnregister_PopList(s, key) ==
    LET r == PollReset(s)
        ix == Find(r.index, key)
    IN  IF ix # 0
        THEN [r EXCEPT !.index = SwapRemove(r.index, ix),
                       !.list = SubSeq(r.list, 1, Len(r.list) - 1)]
        ELSE r

\* Poll::unregister
PollUnregister(s, key) ==
    LET r == PollReset(s)
        ix == Find(r.index, key)
    IN  IF ix # 0
        THEN [r EXCEPT !.index = SwapRemove(r.index, ix), !.list = SwapRemove(r.list, ix)]
        ELSE r

\* mutant: set resets only when it finds the key
PollSet_ResetWhenFound(s, key, events) ==
    LET ix == Find(s.index, key)
    IN  IF ix # 0 THEN [PollReset(s) EXCEPT !.list[ix] = PollFdSet(@, events)] ELSE s

\* Poll::set
PollSet(s, key, events) ==
    LET r == PollReset(s)
        ix == Find(r.index, key)
    IN  IF ix # 0 THEN [r EXCEPT !.list[ix] = PollFdSet(@, events)] ELSE r

\* Poll::unset
PollUnset(s, key, events) ==
    LET r == PollReset(s)
        ix == Find(r.index, key)
    IN  IF ix # 0 THEN [r EXCEPT !.list[ix] = PollFdUnset(@, events)] ELSE r

\* mutant: get_mut resets the registry as Poll::set does
GetMutThenSet_Resets(s, key, events) ==
    LET r == [s EXCEPT !.list = ClearRevents(s.list), !.events_count = 0]
        ix == Find(r.index, key)
    IN  IF ix # 0 THEN [r EXCEPT !.list[ix].events = @ \cup events] ELSE r

\* Poll::get_mut(key) followed by PollFd::set on the record it lends
GetMutThenSet(s, key, events) ==
    LET ix == Find(s.index, key)
    IN  IF ix # 0 THEN [s EXCEPT !.list[ix] = PollFdSet(@, events)] ELSE s

\* Poll::get_mut(key) followed by PollFd::unset on the record it lends
GetMutThenUnset(s, key, events) ==
    LET ix == Find(s.index, key)
    IN  IF ix # 0 THEN [s EXCEPT !.list[ix] = PollFdUnset(@, events)] ELSE s

\* mutant: the number poll returned is not stored in events_count
WaitTimeoutFinish_CountNotStored(s, result) ==
    IF result = 0
    THEN [self |-> s, val |-> IF s.list = <<>> THEN "Ok(false)" ELSE "Ok(true)"]
    ELSE IF result > 0
    THEN [self |-> s, val |-> "Ok(false)"]
    ELSE [self |-> s, val |-> "Err"]

\* mutant: a failed poll is reported as a timeout
WaitTimeoutFinish_ErrIsTimeout(s, result) ==
    IF result = 0
    THEN [self |-> s, val |-> IF s.list = <<>> THEN "Ok(false)" ELSE "Ok(true)"]
    ELSE IF result > 0
    THEN [self |-> [s EXCEPT !.events_count = result], val |-> "Ok(false)"]
    ELSE [self |-> s, val |-> "Ok(true)"]

\* mutant: the test for an empty registry is inverted
WaitTimeoutFinish_EmptyIsTimeout(s, result) ==
    IF result = 0
    THEN [self |-> s, val |-> IF s.list = <<>> THEN "Ok(true)" ELSE "Ok(false)"]
    ELSE IF result > 0
    THEN [self |-> [s EXCEPT !.events_count = result], val |-> "Ok(false)"]
    ELSE [self |-> s, val |-> "Err"]

\* mutant: a poll that returns 0 is always reported as a timeout
WaitTimeoutFinish_ZeroIsTimeout(s, result) ==
    IF result = 0
    THEN [self |-> s, val |-> "Ok(true)"]
    ELSE IF result > 0
    THEN [self |-> [s EXCEPT !.events_count = result], val |-> "Ok(false)"]
    ELSE [self |-> s, val |-> "Err"]

\* mutant: a poll that returns n > 0 is reported as a timeout
WaitTimeoutFinish_ReadyIsTimeout(s, result) ==
    IF result = 0
    THEN [self |-> s, val |-> IF s.list = <<>> THEN "Ok(false)" ELSE "Ok(true)"]
    ELSE IF result > 0
    THEN [self |-> [s EXCEPT !.events_count = result], val |-> "Ok(true)"]
    ELSE [self |-> s, val |-> "Err"]

\* Poll::wait_timeout after libc::poll returned result: the struct and the value
WaitTimeoutFinish(s, result) ==
    IF result = 0
    THEN [self |-> s, val |-> IF s.list = <<>> THEN "Ok(false)" ELSE "Ok(true)"]
    ELSE IF result > 0
    THEN [self |-> [s EXCEPT !.events_count = result], val |-> "Ok(false)"]
    ELSE [self |-> s, val |-> "Err"]

\* Poll::wait around wait_timeout's value: debug_assert!(self.wait_timeout(Never)?)
WaitFinish(val) ==
    CASE val = "Err" -> "Err"
      [] val = "Ok(true)" -> "Ok(())"
      [] OTHER -> "panic"

-----------------------------------------------------------------------------
Result(op, val) == [op |-> op, val |-> val, n |-> 0]
ResultN(op, n) == [op |-> op, val |-> "count", n |-> n]

Polling == {"wait_timeout", "wait"}

Init ==
    /\ index = <<>>
    /\ list = <<>>
    /\ events_count = 0
    /\ pc = "idle"
    /\ arg = Never
    /\ timeout = 0
    /\ ret = Result("new", "()")
    /\ cond = [fd \in UserFds |-> {}]
    /\ waker = FALSE
    /\ buf = 0
    /\ tpc = [t \in Threads |-> "idle"]
    /\ wakes = 0
    /\ woken = FALSE
    /\ again = {}
    /\ drained = FALSE

-----------------------------------------------------------------------------
(* The owning thread *)

Register(key, events) ==
    /\ pc = "idle"
    /\ Len(list) < MaxLen
    /\ Store(PollRegister(Self, key, FdOf(key), events))
    /\ ret' = Result("register", "()")
    /\ UNCHANGED <<pc, arg, timeout, woken, again, cond, waker_vars>>

Unregister(key) ==
    /\ pc = "idle"
    /\ Store(PollUnregister(Self, key))
    /\ ret' = Result("unregister", "()")
    /\ UNCHANGED <<pc, arg, timeout, woken, again, cond, waker_vars>>

Set(key, events) ==
    /\ pc = "idle"
    /\ Store(PollSet(Self, key, events))
    /\ ret' = Result("set", IF Find(index, key) # 0 THEN "true" ELSE "false")
    /\ UNCHANGED <<pc, arg, timeout, woken, again, cond, waker_vars>>

Unset(key, events) ==
    /\ pc = "idle"
    /\ Store(PollUnset(Self, key, events))
    /\ ret' = Result("unset", IF Find(index, key) # 0 THEN "true" ELSE "false")
    /\ UNCHANGED <<pc, arg, timeout, woken, again, cond, waker_vars>>

\* mutant: reset returns the count it leaves, not the count it found
Reset_ReturnsNewCount ==
    /\ pc = "idle"
    /\ Store(PollReset(Self))
    /\ ret' = ResultN("reset", 0)
    /\ UNCHANGED <<pc, arg, timeout, woken, again, cond, waker_vars>>

Reset ==
    /\ pc = "idle"
    /\ Store(PollReset(Self))
    /\ ret' = ResultN("reset", events_count)
    /\ UNCHANGED <<pc, arg, timeout, woken, again, cond, waker_vars>>

GetMutSet(key, events) ==
    /\ pc = "idle"
    /\ Store(GetMutThenSet(Self, key, events))
    /\ ret' = Result("get_mut", IF Find(index, key) # 0 THEN "Some" ELSE "None")
    /\ UNCHANGED <<pc, arg, timeout, woken, again, cond, waker_vars>>

GetMutUnset(key, events) ==
    /\ pc = "idle"
    /\ Store(GetMutThenUnset(Self, key, events))
    /\ ret' = Result("get_mut", IF Find(index, key) # 0 THEN "Some" ELSE "None")
    /\ UNCHANGED <<pc, arg, timeout, woken, again, cond, waker_vars>>

\* wait_timeout up to its suspension point: reset, the conversion, entering libc::poll
WaitTimeout(t) ==
    /\ pc = "idle"
    /\ Store(PollReset(Self))
    /\ pc' = "wait_timeout"
    /\ arg' = t
    /\ timeout' = TimeoutMillis(t)
    /\ ret' = Result("wait_timeout", "pending")
    /\ woken' = (wakes >= 1)
    /\ again' = IF ret = Result("wait_timeout", "Ok(false)")
                THEN {i \in 1..Len(list) : is_readable(list[i])}
                ELSE {}
    /\ UNCHANGED <<cond, waker_vars>>

\* wait: debug_assert! evaluates its argument only when debug assertions are compiled in
Wait(debug_assertions) ==
    /\ pc = "idle"
    /\ IF debug_assertions
       THEN /\ Store(PollReset(Self))
            /\ pc' = "wait"
            /\ arg' = Never
            /\ timeout' = TimeoutMillis(Never)
            /\ ret' = Result("wait", "pending")
            /\ woken' = (wakes >= 1)
            /\ again' = {}
       ELSE /\ ret' = Result("wait", "Ok(())")
            /\ UNCHANGED <<poll_vars, pc, arg, timeout, woken, again>>
    /\ UNCHANGED <<cond, waker_vars>>

\* libc::poll returns result having left l in the array; the rest of wait_timeout (and wait)
Return(result, l) ==
    LET f == WaitTimeoutFinish([Self EXCEPT !.list = l], result)
        v == IF pc = "wait" THEN WaitFinish(f.val) ELSE f.val
    IN  /\ Store(f.self)
        /\ ret' = Result(pc, v)
        /\ pc' = IF v = "panic" THEN "panicked" ELSE "idle"
        /\ arg' = Never
        /\ timeout' = 0
        /\ woken' = FALSE
        /\ again' = {}
        /\ UNCHANGED <<cond, waker_vars>>

\* some source is ready: poll stores every revents and returns their number
PollReady ==
    /\ pc \in Polling
    /\ ReadyCount(list) > 0
    /\ Return(ReadyCount(list), PollScan(list))

\* a non-negative timeout ran out with nothing ready
PollTimeout ==
    /\ pc \in Polling
    /\ timeout >= 0
    /\ ReadyCount(list) = 0
    /\ Return(0, PollScan(list))

\* poll fails (EINTR, ENOMEM, ...): it returns -1 and stores nothing
PollError ==
    /\ pc \in Polling
    /\ Return(-1, list)

\* Waker::new
WakerNew ==
    /\ pc = "idle"
    /\ ~waker
    /\ Len(list) < MaxLen
    /\ Store(PollInsert(Self, WakerKey, PollFdNew(WakerFd, READ)))
    /\ waker' = TRUE
    /\ ret' = Result("Waker::new", "Ok")
    /\ UNCHANGED <<pc, arg, timeout, woken, again, cond, buf, tpc, wakes, drained>>

\* a descriptor's condition changes: its peer writes or closes, its data is read
EnvSet(fd, c) ==
    /\ c # cond[fd]
    /\ cond' = [cond EXCEPT ![fd] = c]
    /\ UNCHANGED <<poll_vars, call_vars, waker_vars>>

Next ==
    \/ \E k \in Keys, e \in EventInputs : Register(k, e)
    \/ \E k \in AllKeys : Unregister(k)
    \/ \E k \in AllKeys, e \in MaskInputs : Set(k, e)
    \/ \E k \in AllKeys, e \in MaskInputs : Unset(k, e)
    \/ Reset
    \/ \E t \in TimeoutInputs : WaitTimeout(t)
    \/ \E d \in BOOLEAN : Wait(d)
    \/ PollReady
    \/ PollTimeout
    \/ PollError
    \/ WakerNew
    \/ \E fd \in UserFds, c \in KernelConds : EnvSet(fd, c)

Spec == Init /\ [][Next]_vars

\* register on a registry that may hold MaxRegs sources
RegisterUpTo(key, events) ==
    /\ pc = "idle"
    /\ Len(list) < MaxRegs
    /\ Store(PollRegister(Self, key, FdOf(key), events))
    /\ ret' = Result("register", "()")
    /\ UNCHANGED <<pc, arg, timeout, woken, again, cond, waker_vars>>

\* the registry's contents alone: sources come and go, keys may repeat, interests change
RegistryNext ==
    \/ \E k \in Keys, e \in EventInputs : RegisterUpTo(k, e)
    \/ \E k \in AllKeys : Unregister(k)
    \/ \E k \in AllKeys, e \in MaskInputs : Set(k, e)
    \/ \E k \in AllKeys, e \in MaskInputs : Unset(k, e)

RegistrySpec == Init /\ [][RegistryNext]_vars

\* Event is libc::c_short: a caller can pass any bits, the implicit ones included
WideInputs == {READ, WRITE, POLLHUP}

\* register under a key the registry does not hold yet
RegisterOnce(key, events) ==
    /\ Find(index, key) = 0
    /\ Register(key, events)

\* the registry, each key registered once, with interests changed through Poll::set
\* and Poll::unset and through the record get_mut lends, between waits with a short
\* timeout
InterestNext ==
    \/ \E k \in Keys, e \in WideInputs : RegisterOnce(k, e)
    \/ \E k \in Keys, e \in WideInputs : Set(k, e)
    \/ \E k \in Keys, e \in WideInputs : Unset(k, e)
    \/ \E k \in Keys, e \in WideInputs : GetMutSet(k, e)
    \/ \E k \in Keys, e \in WideInputs : GetMutUnset(k, e)
    \/ WaitTimeout(After(0, 1))
    \/ PollReady
    \/ PollTimeout
    \/ PollError
    \/ \E fd \in UserFds, c \in KernelConds : EnvSet(fd, c)

InterestSpec == Init /\ [][InterestNext]_vars

-----------------------------------------------------------------------------
(* Waker::wake and Waker::reset, one system call a step *)

Min(a, b) == IF a < b THEN a ELSE b

\* wake: write_all(&[0x1]) on the non-blocking writer, with b bytes queued
WakeWriteResult(b) ==
    IF b < BufCap
    THEN [buf |-> b + 1, pc |-> "idle", ok |-> TRUE]
    ELSE [buf |-> b, pc |-> "drain", ok |-> FALSE]

\* mutant: once the reader is drained wake returns Ok without writing again
WakeDrainResult_NoRetry(b) ==
    IF b > 0
    THEN [buf |-> b - Min(b, ReadLen), pc |-> "drain", ok |-> FALSE]
    ELSE [buf |-> b, pc |-> "idle", ok |-> TRUE]

\* wake, inside Waker::reset: one read; on WouldBlock reset returns and wake calls itself
WakeDrainResult(b) ==
    IF b > 0
    THEN [buf |-> b - Min(b, ReadLen), pc |-> "drain", ok |-> FALSE]
    ELSE [buf |-> b, pc |-> "retry", ok |-> FALSE]

\* mutant: Waker::reset returns after its first read
ResetReadResult_OneRead(b) ==
    IF b > 0
    THEN [buf |-> b - Min(b, ReadLen), pc |-> "idle"]
    ELSE [buf |-> b, pc |-> "idle"]

\* Waker::reset called for itself: one read; on WouldBlock it returns Ok
ResetReadResult(b) ==
    IF b > 0
    THEN [buf |-> b - Min(b, ReadLen), pc |-> "reset"]
    ELSE [buf |-> b, pc |-> "idle"]

WakeWrite(t) ==
    /\ waker
    /\ tpc[t] \in {"idle", "retry"}
    /\ LET w == WakeWriteResult(buf)
       IN  /\ buf' = w.buf
           /\ tpc' = [tpc EXCEPT ![t] = w.pc]
           /\ wakes' = IF w.ok THEN Min(wakes + 1, MaxWakes) ELSE wakes
    /\ drained' = FALSE
    /\ UNCHANGED <<poll_vars, call_vars, cond, waker>>

WakeDrain(t) ==
    /\ tpc[t] = "drain"
    /\ LET w == WakeDrainResult(buf)
       IN  /\ buf' = w.buf
           /\ tpc' = [tpc EXCEPT ![t] = w.pc]
           /\ wakes' = IF w.ok THEN Min(wakes + 1, MaxWakes) ELSE wakes
    /\ drained' = FALSE
    /\ UNCHANGED <<poll_vars, call_vars, cond, waker>>

WakerReset(t) ==
    /\ waker
    /\ tpc[t] \in {"idle", "reset"}
    /\ LET w == ResetReadResult(buf)
       IN  /\ buf' = w.buf
           /\ tpc' = [tpc EXCEPT ![t] = w.pc]
           /\ drained' = (w.pc = "idle")
    /\ wakes' = 0
    /\ UNCHANGED <<poll_vars, call_vars, cond, waker>>

\* the registry with one user source and the waker, and the other threads
WakerNext ==
    \/ WakerNew
    \/ Register("a", READ)
    \/ \E k \in {"a", WakerKey} : Unregister(k)
    \/ \E t \in TimeoutInputs : WaitTimeout(t)
    \/ PollReady
    \/ PollTimeout
    \/ PollError
    \/ \E c \in KernelConds : EnvSet(FdOf("a"), c)
    \/ \E t \in Threads : WakeWrite(t)
    \/ \E t \in Threads : WakeDrain(t)
    \/ \E t \in Threads : WakerReset(t)

WakerSpec == Init /\ [][WakerNext]_vars

\* a wake() that finds room in the buffer: its write succeeds at once
WakeWithRoom(t) ==
    /\ buf < BufCap
    /\ WakeWrite(t)

\* the owner waits on the waker and one user source while other threads call wake()
WakeNext ==
    \/ WakerNew
    \/ Register("a", READ)
    \/ \E t \in TimeoutInputs : WaitTimeout(t)
    \/ PollReady
    \/ PollTimeout
    \/ PollError
    \/ \E c \in KernelConds : EnvSet(FdOf("a"), c)
    \/ \E t \in Threads : WakeWithRoom(t)

\* the kernel lets poll return once a polled descriptor is ready
FairWakeSpec == Init /\ [][WakeNext]_vars /\ WF_vars(PollReady)

\* wake as another thread begins it: the first write_all of a call
WakeCall(t) ==
    /\ tpc[t] = "idle"
    /\ WakeWrite(t)

\* wake calling itself once Waker::reset has returned: the write again
WakeRetry(t) ==
    /\ tpc[t] = "retry"
    /\ WakeWrite(t)

\* wake: write_all fails with an error that is neither WouldBlock nor Interrupted, and
\* the call returns Err with nothing written
WakeWriteError(t) ==
    /\ waker
    /\ tpc[t] \in {"idle", "retry"}
    /\ tpc' = [tpc EXCEPT ![t] = "idle"]
    /\ drained' = FALSE
    /\ UNCHANGED <<poll_vars, call_vars, cond, waker, buf, wakes>>

\* the owner waits on the waker alone while the other threads call wake() and
\* Waker::reset as often as they like
WakeLiveNext ==
    \/ WakerNew
    \/ WaitTimeout(After(0, 1))
    \/ PollReady
    \/ PollTimeout
    \/ PollError
    \/ \E t \in Threads : WakeCall(t)
    \/ \E t \in Threads : WakeRetry(t)
    \/ \E t \in Threads : WakeWriteError(t)
    \/ \E t \in Threads : WakeDrain(t)
    \/ \E t \in Threads : WakerReset(t)

\* a thread inside wake() is scheduled again: its next read or write is made
WakeLiveSpec ==
    /\ Init
    /\ [][WakeLiveNext]_vars
    /\ \A t \in Threads : WF_vars(WakeDrain(t)) /\ WF_vars(WakeRetry(t))

-----------------------------------------------------------------------------
(* Claims about the registry, checked under Spec *)

Ready(l) == {i \in 1..Len(l) : l[i].revents # {}}
Returned(op) == ret.op = op /\ ret.val # "pending"

\* C1 (as claimed): when wait() returns without an OS error on a registry that had a
\* ready source, it returns Ok(()) with the readiness recorded: events_count > 0 and
\* the ready records iterable, no assertion having failed.
C1_WaitRecordsReadiness ==
    [][(~Returned("wait") /\ Returned("wait")' /\ ret'.val # "Err" /\ ReadyCount(list) > 0)
          => (ret'.val = "Ok(())" /\ events_count' > 0 /\ Events'.items # <<>>)]_vars

C3_NeverOnEmptyReturns ==
    (pc = "wait_timeout" /\ arg = Never /\ list = <<>>) => ENABLED PollTimeout

\* C4 (as claimed): the timeout handed to poll is min(d in ms, i32::MAX) for After(d),
\* so never negative, and -1 for Never and for nothing else.
C4_TimeoutSaturates ==
    pc = "wait_timeout"
        => IF arg.kind = "After"
           THEN /\ timeout = (IF arg.q > 0 THEN IntMax ELSE arg.r)
                /\ timeout >= 0
           ELSE timeout = -1

\* C5: the key and record sequences have the same length, position i of one belongs
\* to position i of the other, and iteration never hits "broken iterator".
C5_KeysAlignRecords ==
    /\ Len(index) = Len(list)
    /\ \A i \in 1..Len(list) : i <= Len(index) /\ list[i].fd = FdOf(index[i])
    /\ ~Events.panic

\* C5 witness: unregister has moved the waker's pair, registered last, into slot 1.
C5_Witness ==
    /\ Returned("unregister")
    /\ waker
    /\ index = <<WakerKey>>
    /\ Len(list) = 1

\* C6: right after register, unregister, set, unset or reset returns, found or not,
\* every revents is empty, events_count is 0 and iteration yields nothing.
C6_MutationClearsReadiness ==
    ret.op \in {"register", "unregister", "set", "unset", "reset"}
        => /\ \A i \in 1..Len(list) : list[i].revents = {}
           /\ events_count = 0
           /\ ~has_events
           /\ Events.items = <<>>

\* C6 witness: set has returned false for a missing key while a registered source is ready.
C6_Witness ==
    /\ ret.op = "set"
    /\ ret.val = "false"
    /\ ReadyCount(list) > 0

\* C7: events_count is the number of records whose revents is non-empty, and the
\* number of pairs iteration yields.
C7_CountIsReadyRecords ==
    /\ events_count = Cardinality(Ready(list))
    /\ events_count = Len(Events.items)

\* C7 witness: a wait_timeout has returned Ok(false) with two records ready.
C7_Witness ==
    /\ Returned("wait_timeout")
    /\ ret.val = "Ok(false)"
    /\ events_count = 2

\* the positions whose record has a non-empty revents, in storage order
ReadyPositions ==
    LET IsReady(i) == list[i].revents # {}
    IN  SelectSeq([i \in 1..Len(list) |-> i], IsReady)

\* C8: iteration yields exactly the (key, record) pairs whose revents is non-empty,
\* in storage order, each record with its own key; HANGUP alone is enough.
C8_IterationYieldsReadyPairs ==
    /\ Events.items = [j \in 1..Len(ReadyPositions) |->
                          <<index[ReadyPositions[j]], list[ReadyPositions[j]]>>]
    /\ \A i \in 1..Len(list) :
          (list[i].revents # {} /\ list[i].revents \subseteq POLLHUP \cup POLLERR \cup POLLNVAL)
              => \E j \in 1..Len(Events.items) : Events.items[j] = <<index[i], list[i]>>

\* C8 witness: a record holding only HANGUP is yielded, after one with empty revents is not.
C8_Witness ==
    /\ Len(list) = 2
    /\ list[1].revents = {}
    /\ list[2].revents = POLLHUP
    /\ Events.items = <<<<index[2], list[2]>>>>

-----------------------------------------------------------------------------
(* Claims about the waker, checked under WakerSpec and FairWakeSpec *)

\* the waker's reader is registered with READ interest
WakerRegistered == \E i \in 1..Len(list) : list[i].fd = WakerFd /\ READ \subseteq list[i].events

\* the records of the waker's reader that the last wait reported ready
WakerReady(l) == {i \in 1..Len(l) : l[i].fd = WakerFd /\ l[i].revents # {}}

AllIdle == \A t \in Threads : tpc[t] = "idle"
Quiet == \A fd \in UserFds : cond[fd] = {}

\* C9: when a wait_timeout returns, N >= 1 wake() calls having returned Ok since the
\* last Waker::reset and none being in progress, it returns Ok(false) with exactly
\* one ready record for the waker, readable; it is the only ready record when no
\* other source is ready. The buffer may have been full before the calls.
C9_WakesCollapseToOneEvent ==
    [][(pc = "wait_timeout" /\ Returned("wait_timeout")' /\ ret'.val # "Err"
            /\ wakes >= 1 /\ AllIdle /\ WakerRegistered)
          => /\ ret'.val = "Ok(false)"
             /\ Cardinality(WakerReady(list')) = 1
             /\ \A i \in WakerReady(list') : is_readable(list'[i])
             /\ Quiet => (events_count' = 1 /\ Len(Events'.items) = 1)]_vars

\* C9 witness: a wait_timeout has returned the waker as its one ready record after
\* MaxWakes wake() calls, of which one found the buffer full and drained it.
C9_Witness ==
    /\ Returned("wait_timeout")
    /\ ret.val = "Ok(false)"
    /\ wakes = MaxWakes
    /\ buf < MaxWakes
    /\ AllIdle
    /\ events_count = 1
    /\ \E i \in WakerReady(list) : is_readable(list[i])

C11_CompletedWakeMakesPollReady ==
    [][(pc = "wait_timeout" /\ Returned("wait_timeout")' /\ ret'.val # "Err"
            /\ woken /\ WakerRegistered)
          => /\ ret'.val = "Ok(false)"
             /\ WakerReady(list') # {}]_vars

\* C12: once every wake() has returned Ok, at least one of them having been called,
\* and no Waker::reset has run since, the reader holds at least one unread byte,
\* whether or not some of the calls found the buffer full, drained the reader and
\* wrote again; a wait_timeout that returns in that situation without an OS error
\* returns Ok(false) and reports every record of the waker readable.
C12_WakesLeaveAByte ==
    [][/\ (wakes' >= 1 /\ AllIdle') => buf' >= 1
       /\ (pc = "wait_timeout" /\ Returned("wait_timeout")' /\ ret'.val # "Err"
              /\ wakes >= 1 /\ AllIdle)
            => /\ \A i \in 1..Len(list') : list'[i].fd = WakerFd => is_readable(list'[i])
               /\ WakerRegistered => (ret'.val = "Ok(false)" /\ has_events')]_vars

\* C12 witness: the owner is inside poll on the waker, MaxWakes wake() calls have
\* returned Ok, one of them after draining the full buffer, and one byte is queued.
C12_Witness ==
    /\ pc = "wait_timeout"
    /\ WakerRegistered
    /\ woken
    /\ AllIdle
    /\ wakes = MaxWakes
    /\ buf = 1

-----------------------------------------------------------------------------
(* More claims about the registry, checked under Spec *)

\* C13: readiness is level-triggered. When a wait_timeout follows one that reported
\* a source readable, its entry clears that record's revents; and if the source is
\* still readable when poll returns without an OS error, nothing having been read
\* from it, the call returns Ok(false) and reports the record readable again, under
\* its key, in iteration.
C13_LevelTriggered ==
    [][/\ (pc = "idle" /\ pc' = "wait_timeout")
            => \A i \in again' : list'[i].revents = {}
       /\ (pc = "wait_timeout" /\ Returned("wait_timeout")' /\ ret'.val # "Err")
            => \A i \in again :
                  CondOf(list[i].fd) \cap READ # {}
                      => /\ ret'.val = "Ok(false)"
                         /\ is_readable(list'[i])
                         /\ has_events'
                         /\ \E j \in 1..Len(Events'.items) :
                               Events'.items[j] = <<index[i], list'[i]>>]_vars

\* C13 witness: the owner is inside a second consecutive wait_timeout; the source the
\* first one reported readable still has its data pending and its revents are cleared.
C13_Witness ==
    /\ pc = "wait_timeout"
    /\ \E i \in again :
          /\ list[i].revents = {}
          /\ READ \subseteq list[i].events
          /\ "IN" \in CondOf(list[i].fd)

\* C14: when poll fails inside wait_timeout, the call returns Err on that step, with
\* events_count 0, every revents empty and the keys, descriptors and interest masks
\* as they were; and the owner takes no step inside wait_timeout other than the one
\* poll attempt that ends the call.
C14_PollErrorReturnsErr ==
    [][/\ (pc = "wait_timeout" /\ PollError)
            => /\ ret' = Result("wait_timeout", "Err")
               /\ pc' = "idle"
               /\ events_count' = 0
               /\ ~has_events'
               /\ index' = index
               /\ Len(list') = Len(list)
               /\ \A i \in 1..Len(list) :
                     /\ list'[i].revents = {}
                     /\ list'[i].fd = list[i].fd
                     /\ list'[i].events = list[i].events
       /\ (pc = "wait_timeout" /\ pc' = "wait_timeout")
            => UNCHANGED <<poll_vars, call_vars>>]_vars

\* C14 witness: a wait_timeout over two sources has returned Err although one of
\* them was ready; nothing is recorded.
C14_Witness ==
    /\ ret = Result("wait_timeout", "Err")
    /\ Len(list) = 2
    /\ ReadyCount(list) > 0
    /\ events_count = 0
    /\ \A i \in 1..Len(list) : list[i].revents = {}

-----------------------------------------------------------------------------
(* Claims about the registry's contents, checked under RegistrySpec *)

\* C16: unregister(key) removes the first record whose key is key, with its key, by
\* moving the last (key, record) pair into the freed slot: every other position
\* keeps its key, descriptor and interest, and len decreases by exactly 1. When no
\* key matches, the keys, descriptors and interests are unchanged.
C16_UnregisterSwapsLastIn ==
    [][\A key \in AllKeys :
          Unregister(key) =>
              LET n == Len(index)
                  hits == {i \in 1..n : index[i] = key}
              IN  IF hits = {}
                  THEN /\ index' = index
                       /\ Len(list') = Len(list)
                       /\ \A i \in 1..Len(list) :
                             /\ list'[i].fd = list[i].fd
                             /\ list'[i].events = list[i].events
                  ELSE LET ix == CHOOSE i \in hits : \A j \in hits : i <= j
                       IN  /\ Len(index') = n - 1
                           /\ Len(list') = n - 1
                           /\ \A i \in 1..(n - 1) :
                                 LET from == IF i = ix THEN n ELSE i
                                 IN  /\ index'[i] = index[from]
                                     /\ list'[i].fd = list[from].fd
                                     /\ list'[i].events = list[from].events]_vars

\* C16 witness: unregister has left two sources, "b" with WRITE interest in front of
\* "a" with READ interest, as it does when it takes the first "a" out of three.
C16_Witness ==
    /\ ret.op = "unregister"
    /\ index = <<"b", "a">>
    /\ list[1].events = WRITE
    /\ list[2].events = READ

-----------------------------------------------------------------------------
(* Unregistered sources, checked under WakerSpec *)

KeysOf(keys) == {keys[i] : i \in 1..Len(keys)}
UniqueKeys == \A i, j \in 1..Len(index) : index[i] = index[j] => i = j

\* C17: with unique keys, unregister(key) leaves key out of the registry and every
\* other key in it; a key that is out comes back only by being registered; and when
\* a wait_timeout returns without an OS error, a key that is out is not yielded by
\* iteration, however readable its descriptor, while every registered source with
\* READ interest that is readable is yielded under its own key with its own
\* descriptor, a source registered again included.
C17_UnregisteredKeyNotReported ==
    [][/\ \A key \in AllKeys :
             (UniqueKeys /\ Unregister(key))
                 => /\ key \notin KeysOf(index')
                    /\ KeysOf(index') = KeysOf(index) \ {key}
       /\ \A key \in AllKeys :
             (key \notin KeysOf(index) /\ key \in KeysOf(index'))
                 => ret'.op \in {"register", "Waker::new"}
       /\ (pc = "wait_timeout" /\ Returned("wait_timeout")' /\ ret'.val # "Err" /\ UniqueKeys)
             => /\ \A j \in 1..Len(Events'.items) :
                      /\ Events'.items[j][1] \in KeysOf(index)
                      /\ Events'.items[j][2].fd = FdOf(Events'.items[j][1])
                /\ \A i \in 1..Len(list) :
                      (READ \subseteq list[i].events /\ CondOf(list[i].fd) \cap READ # {})
                          => /\ is_readable(list'[i])
                             /\ \E j \in 1..Len(Events'.items) :
                                   Events'.items[j] = <<index[i], list'[i]>>]_vars

\* C17 witness: the waker's key has been unregistered (Waker::new ran and the key is
\* out) and its reader has a byte queued; a wait_timeout has returned and iteration
\* yields the readable "a" alone.
C17_Witness ==
    /\ ret = Result("wait_timeout", "Ok(false)")
    /\ waker
    /\ WakerKey \notin KeysOf(index)
    /\ buf > 0
    /\ index = <<"a">>
    /\ Events.items = <<<<"a", list[1]>>>>
    /\ is_readable(list[1])

-----------------------------------------------------------------------------
(* Interest masks: set and unset under RegistrySpec, what poll reports under Spec *)

\* the first position of keys holding key, 0 when there is none
FirstOf(keys, key) ==
    LET hits == {i \in 1..Len(keys) : keys[i] = key}
    IN  IF hits = {} THEN 0 ELSE CHOOSE i \in hits : \A j \in hits : i <= j

\* every record but the one at position ix keeps its interest, and every record
\* keeps its descriptor and key
OthersKept(ix) ==
    /\ index' = index
    /\ Len(list') = Len(list)
    /\ \A i \in 1..Len(list) :
          /\ list'[i].fd = list[i].fd
          /\ i # ix => list'[i].events = list[i].events

\* C18: set(key, mask) makes the interest of the first record with that key
\* (interest OR mask) and unset(key, mask) makes it (interest AND NOT mask); each
\* returns true exactly when such a record exists, changes no other interest and
\* no descriptor or key, and changes no interest at all when it returns false.
C18_SetUnsetFirstRecord ==
    [][\A key \in AllKeys, mask \in MaskInputs :
          /\ Set(key, mask) =>
                LET ix == FirstOf(index, key)
                IN  /\ ret' = Result("set", IF ix # 0 THEN "true" ELSE "false")
                    /\ OthersKept(ix)
                    /\ ix # 0 => list'[ix].events = list[ix].events \cup mask
          /\ Unset(key, mask) =>
                LET ix == FirstOf(index, key)
                IN  /\ ret' = Result("unset", IF ix # 0 THEN "true" ELSE "false")
                    /\ OthersKept(ix)
                    /\ ix # 0 => list'[ix].events = list[ix].events \ mask]_vars

\* C18 witness: set has returned true on a registry holding the key twice, around
\* another key; the first record has both interests and the others have none.
C18_Witness ==
    /\ ret = Result("set", "true")
    /\ index = <<"a", "b", "a">>
    /\ list[1].events = READ \cup WRITE
    /\ list[2].events = NONE
    /\ list[3].events = NONE

\* the bits poll reports whether or not they were asked for
Implicit == POLLHUP \cup POLLERR \cup POLLNVAL

\* C19: when a wait_timeout returns without an OS error, each record's revents holds
\* only bits of its interest mask and the implicit HANGUP, ERROR and INVALID bits. A
\* record without READ interest is not reported readable, and one with no interest
\* is not reported or yielded at all merely because data is pending; a record with
\* READ interest whose data is pending is reported readable and yielded. unset(key,
\* READ) leaves the first record of key without READ interest, set(key, READ) with it.
C19_ReventsWithinInterest ==
    [][/\ (pc = "wait_timeout" /\ Returned("wait_timeout")' /\ ret'.val # "Err")
            => \A i \in 1..Len(list) :
                  LET yielded == \E j \in 1..Len(Events'.items) :
                                    Events'.items[j] = <<index[i], list'[i]>>
                  IN  /\ list'[i].events = list[i].events
                      /\ list'[i].revents \subseteq list[i].events \cup Implicit
                      /\ list[i].events \cap READ = {} => ~is_readable(list'[i])
                      /\ (list[i].events = NONE /\ CondOf(list[i].fd) \cap Implicit = {})
                            => (list'[i].revents = {} /\ ~yielded)
                      /\ (READ \subseteq list[i].events /\ CondOf(list[i].fd) \cap READ # {})
                            => (is_readable(list'[i]) /\ yielded)
       /\ (ret' = Result("unset", "true") /\ cond' = cond)
            => \A key \in AllKeys :
                  Unset(key, READ) => list'[FirstOf(index, key)].events \cap READ = {}
       /\ (ret' = Result("set", "true") /\ cond' = cond)
            => \A key \in AllKeys :
                  Set(key, READ) => READ \subseteq list'[FirstOf(index, key)].events]_vars

\* C19 witness: a wait_timeout has timed out on one source that has no interest and
\* has data pending: nothing is reported and nothing is yielded.
C19_Witness ==
    /\ ret = Result("wait_timeout", "Ok(true)")
    /\ Len(list) = 1
    /\ list[1].events = NONE
    /\ "IN" \in CondOf(list[1].fd)
    /\ list[1].revents = {}
    /\ Events.items = <<>>

-----------------------------------------------------------------------------
(* Waker::reset, checked under WakerSpec *)

\* C20: Waker::reset returns Ok only from a read that would block, every earlier
\* read having taken bytes off the reader; and when a wait_timeout on a registry
\* holding only the waker returns without an OS error, a Waker::reset having
\* returned and no wake() having run since, it returns Ok(true) with no event
\* recorded and nothing to iterate.
C20_ResetDrainsReader ==
    [][/\ \A t \in Threads :
             WakerReset(t) => /\ tpc'[t] = "idle" => (buf = 0 /\ buf' = 0)
                              /\ tpc'[t] = "reset" => (buf > 0 /\ buf' < buf)
       /\ (pc = "wait_timeout" /\ Returned("wait_timeout")' /\ ret'.val # "Err"
              /\ drained /\ index = <<WakerKey>>)
            => /\ ret' = Result("wait_timeout", "Ok(true)")
               /\ events_count' = 0
               /\ ~has_events'
               /\ Events'.items = <<>>]_vars

\* C20 witness: after a Waker::reset returned, and with no wake() since, a
\* wait_timeout on the waker alone has timed out with nothing reported.
C20_Witness ==
    /\ ret = Result("wait_timeout", "Ok(true)")
    /\ index = <<WakerKey>>
    /\ WakerRegistered
    /\ drained
    /\ AllIdle
    /\ buf = 0
    /\ Events.items = <<>>

-----------------------------------------------------------------------------
(* Poll::reset, checked under Spec *)

\* C21: Poll::reset returns the events_count it found, leaves events_count 0 and
\* every revents empty, and keeps the keys, descriptors and interest masks; a reset
\* that follows a reset returns 0 and changes nothing in the registry.
C21_ResetReturnsPreviousCount ==
    [][(ret'.op = "reset" /\ cond' = cond)
          => /\ ret' = ResultN("reset", events_count)
             /\ events_count' = 0
             /\ ~has_events'
             /\ index' = index
             /\ Len(list') = Len(list)
             /\ \A i \in 1..Len(list) :
                   /\ list'[i].revents = {}
                   /\ list'[i].fd = list[i].fd
                   /\ list'[i].events = list[i].events
             /\ ret.op = "reset" => (ret'.n = 0 /\ UNCHANGED poll_vars)]_vars

\* C21 witness: reset has returned 2 after a wait that reported two sources, and
\* has left nothing recorded although both are still ready.
C21_Witness ==
    /\ ret = ResultN("reset", 2)
    /\ events_count = 0
    /\ Len(list) = 2
    /\ ReadyCount(list) = 2
    /\ \A i \in 1..Len(list) : list[i].revents = {}

-----------------------------------------------------------------------------
(* Waker::new, checked under Spec *)

\* C22 (as claimed): Waker::new has the effect of register(key, reader, READ) on the
\* registry: it appends one record with the reader's descriptor, READ interest and
\* empty revents, and right after it returns events_count is 0 and every record's
\* revents is empty, whatever the previous wait had reported.
C22_WakerNewIsRegister ==
    [][(ret'.op = "Waker::new" /\ ~waker /\ waker')
          => /\ Self' = PollRegister(Self, WakerKey, WakerFd, READ)
             /\ index' = Append(index, WakerKey)
             /\ list'[Len(list')] = PollFdNew(WakerFd, READ)
             /\ events_count' = 0
             /\ \A i \in 1..Len(list') : list'[i].revents = {}]_vars

-----------------------------------------------------------------------------
(* Interest masks with any Event passed in, checked under InterestSpec *)

\* C23 (as claimed): in every reachable state every record's interest mask holds
\* only READ and WRITE bits, whatever Event the caller passed to register, set,
\* unset or PollFd::set.
C23_InterestOnlyReadWrite ==
    \A i \in 1..Len(list) : list[i].events \subseteq ALL

\* what iteration yields, as positions of the list
YieldedAt(l) == {i \in 1..Len(l) : HasEvents(l[i])}

\* C25: get_mut(key) followed by PollFd::set or PollFd::unset changes the interest
\* of the first record of key, to (interest OR mask) or (interest AND NOT mask), and
\* nothing else: events_count, every revents, every descriptor and key and every
\* other interest stay, and iteration yields the same records as before.
C25_GetMutKeepsReadiness ==
    [][(ret'.op = "get_mut" /\ cond' = cond)
          => /\ events_count' = events_count
             /\ index' = index
             /\ Len(list') = Len(list)
             /\ \A i \in 1..Len(list) :
                   /\ list'[i].revents = list[i].revents
                   /\ list'[i].fd = list[i].fd
             /\ YieldedAt(list') = YieldedAt(list)
             /\ Len(Events'.items) = Len(Events.items)
             /\ has_events' = has_events
             /\ \A key \in Keys, mask \in WideInputs :
                   LET ix == FirstOf(index, key)
                       kept == \A i \in 1..Len(list) :
                                  i # ix => list'[i].events = list[i].events
                   IN  /\ GetMutSet(key, mask)
                           => /\ kept
                              /\ ret'.val = (IF ix # 0 THEN "Some" ELSE "None")
                              /\ ix # 0 => list'[ix].events = list[ix].events \cup mask
                       /\ GetMutUnset(key, mask)
                           => /\ kept
                              /\ ret'.val = (IF ix # 0 THEN "Some" ELSE "None")
                              /\ ix # 0 => list'[ix].events = list[ix].events \ mask]_vars

\* C25 witness: after a wait reported both sources readable, get_mut and
\* PollFd::unset have taken READ off the first record; the count is still 2 and
\* iteration still yields both records.
C25_Witness ==
    /\ ret = Result("get_mut", "Some")
    /\ events_count = 2
    /\ Len(list) = 2
    /\ list[1].events = NONE
    /\ is_readable(list[1])
    /\ is_readable(list[2])
    /\ Len(Events.items) = 2

-----------------------------------------------------------------------------
(* Claims about the termination of wake(), checked under WakeLiveSpec *)

\* thread t is inside wake(): draining the reader or about to write again
InWake(t) == tpc[t] \in {"drain", "retry"}

\* C24: every wake() call eventually returns, for one caller and, the threads being
\* scheduled fairly, for several threads calling wake() on a full buffer
C24_EveryWakeReturns == \A t \in Threads : InWake(t) ~> (tpc[t] = "idle")

\* what wake() does keep: if from some point on no new wake() call begins, every wake()
\* call in progress returns, for one caller and for several callers on a full buffer
C24_WakeReturnsOnceCallsStop ==
    (<>[][\A u \in Threads : ~WakeCall(u)]_vars)
        => \A t \in Threads : InWake(t) ~> (tpc[t] = "idle")

\* the buffer is full and every thread is inside wake(), draining or retrying
C24_Witness ==
    /\ \A t \in Threads : InWake(t)
    /\ \E t \in Threads : tpc[t] = "retry"

====
